---- MODULE Spec2Model ----
(***************************************************************************)
(* int_titan::integer (src/integer.h): an arbitrary-length signed integer  *)
(* kept as a little-endian vector of base-2^32 digits and a sign flag.     *)
(*                                                                         *)
(* A digit is a uint32_t.  TLC's integers are 32-bit signed, so a digit is *)
(* written here as the pair <<hi, lo>> of its two 16-bit halves; the       *)
(* operators of the "machine words" section compute uint32_t / uint64_t    *)
(* arithmetic on such pairs, wrap-around included.                         *)
(***************************************************************************)
EXTENDS Integers, Sequences, FiniteSets

(***************************************************************************)
(* Machine words                                                           *)
(***************************************************************************)
\* 2^16: one half of a digit.
Half == 2^16

\* digit(hi, lo) is the uint32_t hi * 2^16 + lo.
D(hi, lo) == <<hi, lo>>
Zero32 == D(0, 0)
One32 == D(0, 1)
\* std::numeric_limits<uint32_t>::max()
max_digit == D(Half - 1, Half - 1)

\* a < b on uint32_t
DigitLess(a, b) == a[1] < b[1] \/ (a[1] = b[1] /\ a[2] < b[2])
\* a >= b on uint32_t
DigitGeq(a, b) == ~DigitLess(a, b)

\* (a + b + c) mod 2^32, c a small int (the carry)
DigitAdd(a, b, c) ==
    LET lo == a[2] + b[2] + c
        hi == a[1] + b[1] + (lo \div Half)
    IN  D(hi % Half, lo % Half)

\* (a - b) mod 2^32: unsigned subtraction wraps
DigitSub(a, b) ==
    LET lo == a[2] - b[2]
        bw == IF lo < 0 THEN 1 ELSE 0
        hi == a[1] - b[1] - bw
    IN  D(hi % Half, lo % Half)

\* the conversion of an int 0 or 1 to uint32_t
DigitOfBit(b) == D(0, b)

\* bit n (0..31) of a digit
DigitBit(d, n) == IF n >= 16 THEN (d[1] \div (2^(n - 16))) % 2 ELSE (d[2] \div (2^n)) % 2

RECURSIVE BitOr16(_, _, _)
\* bitwise or of two 16-bit values, over bits n-1 .. 0
BitOr16(a, b, n) ==
    IF n = 0 THEN 0
    ELSE LET bit == IF (a % 2) = 1 \/ (b % 2) = 1 THEN 1 ELSE 0
         IN  bit + 2 * BitOr16(a \div 2, b \div 2, n - 1)

\* a | b on uint32_t
DigitOr(a, b) == D(BitOr16(a[1], b[1], 16), BitOr16(a[2], b[2], 16))

\* (v << n) as a 32-bit pattern, for a small non-negative int v (v < 2^8) and 0 <= n < 32
ShiftLeft32(v, n) ==
    IF n >= 16 THEN D((v * 2^(n - 16)) % Half, 0)
    ELSE LET t == v * 2^n IN D((t \div Half) % Half, t % Half)

\* The product of two 16-bit values as <<high half, low half>>; the partial
\* products are taken bytewise so that none exceeds 2^24.
Mul16(a, b) ==
    LET t1 == a * (b % 256)
        t2 == a * (b \div 256)
        low == t1 + (t2 % 256) * 256
    IN  <<(low \div Half) + (t2 \div 256), low % Half>>

\* static_cast<superdigit>(x) * static_cast<superdigit>(y): a uint64_t, written
\* <<high digit, low digit>>.
multiply_digits(x, y) ==
    LET p0 == Mul16(x[2], y[2])
        p1 == Mul16(x[1], y[2])
        p2 == Mul16(x[2], y[1])
        p3 == Mul16(x[1], y[1])
        s1 == p0[1] + p1[2] + p2[2]
        s2 == p1[1] + p2[1] + p3[2] + (s1 \div Half)
        s3 == p3[1] + (s2 \div Half)
    IN  <<D(s3 % Half, s2 % Half), D(s1 % Half, p0[2])>>

\* p + c on uint64_t, c a digit
SuperAdd(p, c) ==
    LET low == DigitAdd(p[2], c, 0)
        cy == IF DigitLess(low, c) THEN 1 ELSE 0
    IN  <<DigitAdd(p[1], Zero32, cy), low>>

\* (p << 32) >> 32 on uint64_t: the low digit
SuperLow(p) == p[2]
\* p >> 32 on uint64_t: the high digit
SuperHigh(p) == p[1]

(***************************************************************************)
(* The integer value                                                       *)
(***************************************************************************)
Max(a, b) == IF a >= b THEN a ELSE b

\* integer create(const integer_digits& digits, const bool is_negative)
create(digits, is_negative) == [digits |-> digits, is_negative |-> is_negative]

\* const integer integer::zero = create(integer_digits(), false)
zero == create(<<>>, FALSE)

negate(x) == [x EXCEPT !.is_negative = ~x.is_negative]

absolute_value(x) == [x EXCEPT !.is_negative = FALSE]

\* index is 0-based, as in the source
get_digit(x, index) == IF index < Len(x.digits) THEN x.digits[index + 1] ELSE Zero32

\* static_cast<superdigit>(max_digit) + 1 - digit, truncated to a digit.
\* (The source asserts digit != 0; the kernel never passes 0.)
inverse_digit(digit) == DigitSub(Zero32, digit)

\* is_equal_to without its first test: a zero with the sign flag set differs from zero
is_equal_to_signed(x, y) == x.is_negative = y.is_negative /\ x.digits = y.digits

is_equal_to(x, y) ==
    IF x.digits = <<>> /\ y.digits = <<>> THEN TRUE
    ELSE x.is_negative = y.is_negative /\ x.digits = y.digits

RECURSIVE compare_digits(_, _, _)
\* the loop of is_less_than: i runs from size - 1 down to 0
compare_digits(x, y, i) ==
    IF i < 0 THEN FALSE
    ELSE IF get_digit(x, i) # get_digit(y, i) THEN DigitLess(get_digit(x, i), get_digit(y, i))
    ELSE compare_digits(x, y, i - 1)

RECURSIVE is_less_than(_, _)
is_less_than(x, y) ==
    IF is_equal_to(x, zero) /\ is_equal_to(y, zero) THEN FALSE
    ELSE IF x.is_negative # y.is_negative THEN x.is_negative
    ELSE IF x.is_negative /\ y.is_negative THEN ~is_less_than(negate(y), negate(x))
    ELSE IF Len(x.digits) # Len(y.digits) THEN Len(x.digits) < Len(y.digits)
    ELSE compare_digits(x, y, Len(x.digits) - 1)

RECURSIVE add_loop(_, _, _, _, _)
\* the unsigned kernel of add: the for loop and the final carry digit
add_loop(x, y, i, carry, result) ==
    IF i < Max(Len(x.digits), Len(y.digits))
    THEN LET sum == DigitAdd(get_digit(x, i), get_digit(y, i), carry)
         IN  add_loop(x, y, i + 1,
                      IF DigitLess(sum, get_digit(x, i)) THEN 1 ELSE 0,
                      Append(result, sum))
    ELSE IF carry = 1 THEN Append(result, One32) ELSE result

RECURSIVE subtract_loop(_, _, _, _, _)
\* the unsigned kernel of subtract: get_digit(x, i) - borrow is a uint32_t
\* expression, so it wraps when the digit is 0 and borrow is 1.
subtract_loop(x, y, i, borrow, result) ==
    IF i < Max(Len(x.digits), Len(y.digits))
    THEN LET a == DigitSub(get_digit(x, i), DigitOfBit(borrow))
         IN  IF DigitGeq(a, get_digit(y, i))
             THEN subtract_loop(x, y, i + 1, 0, Append(result, DigitSub(a, get_digit(y, i))))
             ELSE subtract_loop(x, y, i + 1, 1,
                                Append(result, inverse_digit(DigitSub(get_digit(y, i), a))))
    ELSE result

RECURSIVE strip_leading_zeros(_)
\* while (!result.empty() and result[result.size() - 1] == 0) result.take(size - 1)
strip_leading_zeros(result) ==
    IF result # <<>> /\ result[Len(result)] = Zero32
    THEN strip_leading_zeros(SubSeq(result, 1, Len(result) - 1))
    ELSE result

\* What a call of add or subtract comes to: it returns a value, or the chain
\* of recursive calls it starts never ends (a call with the same function and
\* arguments as one still on the call stack; the functions being pure, it
\* repeats for ever and the stack overflows).
Returned(v) == [returned |-> TRUE, value |-> v]
StackOverflow == [returned |-> FALSE, value |-> zero]
negate_result(r) == IF r.returned THEN Returned(negate(r.value)) ELSE r
OnStack(frame, stack) == \E k \in 1 .. Len(stack) : stack[k] = frame

RECURSIVE add_call(_, _, _)
RECURSIVE subtract_call(_, _, _)

add_call(x, y, stack) ==
    LET frame == <<"add", x, y>>
        callers == Append(stack, frame)
    IN  IF OnStack(frame, stack) THEN StackOverflow
        ELSE IF x.is_negative /\ y.is_negative
             THEN negate_result(add_call(negate(x), negate(y), callers))
        ELSE IF x.is_negative /\ ~y.is_negative
             THEN subtract_call(y, negate(x), callers)
        ELSE IF ~x.is_negative /\ y.is_negative
             THEN subtract_call(x, negate(y), callers)
        ELSE Returned(create(add_loop(x, y, 0, 0, <<>>), FALSE))

subtract_call(x, y, stack) ==
    LET frame == <<"subtract", x, y>>
        callers == Append(stack, frame)
    IN  IF OnStack(frame, stack) THEN StackOverflow
        ELSE IF is_less_than(x, y)
             THEN negate_result(subtract_call(y, x, callers))
        ELSE IF x.is_negative /\ y.is_negative
             THEN negate_result(subtract_call(negate(y), negate(x), callers))
        ELSE IF x.is_negative /\ ~y.is_negative
             THEN negate_result(add_call(negate(x), y, callers))
        ELSE IF ~x.is_negative /\ y.is_negative
             THEN add_call(x, negate(y), callers)
        ELSE Returned(create(strip_leading_zeros(subtract_loop(x, y, 0, 0, <<>>)), FALSE))

\* integer add(const integer& x, const integer& y), called from outside
add(x, y) == add_call(x, y, <<>>)
\* integer subtract(const integer& x, const integer& y), called from outside
subtract(x, y) == subtract_call(x, y, <<>>)

RECURSIVE push_front_zeros(_, _)
push_front_zeros(digits, amount) ==
    IF amount <= 0 THEN digits ELSE push_front_zeros(<<Zero32>> \o digits, amount - 1)

shift_left(x, amount) ==
    IF is_equal_to(x, zero) THEN x
    ELSE [x EXCEPT !.digits = push_front_zeros(x.digits, amount)]

\* immer's drop(n): the elements from index n on; empty when n >= size
drop(digits, n) == IF n >= Len(digits) THEN <<>> ELSE SubSeq(digits, n + 1, Len(digits))

shift_right(x, amount) == create(drop(x.digits, amount), x.is_negative)

RECURSIVE multiply_by_digit_loop(_, _, _, _, _)
\* the loop of multiply_integer_by_digit and the final carry digit
multiply_by_digit_loop(x, d, i, carry, result) ==
    IF i < Len(x.digits)
    THEN LET product == SuperAdd(multiply_digits(get_digit(x, i), d), carry)
             pushed == IF result # <<>> \/ SuperLow(product) # Zero32
                       THEN Append(result, SuperLow(product))
                       ELSE result
         IN  multiply_by_digit_loop(x, d, i + 1, SuperHigh(product), pushed)
    ELSE IF carry # Zero32 THEN Append(result, carry) ELSE result

multiply_integer_by_digit(x, d) ==
    create(multiply_by_digit_loop(x, d, 0, Zero32, <<>>), x.is_negative)

RECURSIVE multiply_loop(_, _, _, _)
\* the loop of multiply: result = add(result, shift_left(x * y[i], i)); both
\* operands of add are non-negative there, so add returns.
multiply_loop(x, y, i, result) ==
    IF i < Len(y.digits)
    THEN LET product_by_digit == multiply_integer_by_digit(x, y.digits[i + 1])
         IN  multiply_loop(x, y, i + 1, add(result, shift_left(product_by_digit, i)).value)
    ELSE result

RECURSIVE multiply(_, _)
multiply(x, y) ==
    IF Len(y.digits) > Len(x.digits) THEN multiply(y, x)
    ELSE LET is_negative == (x.is_negative # y.is_negative)
             result == multiply_loop(absolute_value(x), absolute_value(y), 0, zero)
         IN  [result EXCEPT !.is_negative = is_negative]

\* cur | (1 << i) on uint32_t
DigitSetBit(cur, i) == IF DigitBit(cur, i) = 1 THEN cur ELSE DigitAdd(cur, ShiftLeft32(1, i), 0)

RECURSIVE small_divide_loop(_, _, _, _)
\* the loop of small_divide: i runs from 31 down to 0
small_divide_loop(x, y, i, cur) ==
    IF i < 0 THEN cur
    ELSE IF ~is_less_than(x, multiply_integer_by_digit(y, DigitSetBit(cur, i)))
         THEN small_divide_loop(x, y, i - 1, DigitSetBit(cur, i))
         ELSE small_divide_loop(x, y, i - 1, cur)

small_divide(x, y) ==
    IF is_less_than(x, y) THEN Zero32 ELSE small_divide_loop(x, y, 31, Zero32)

RECURSIVE divide_loop(_, _, _, _, _)
\* the long division loop of divide: i runs from size - 1 down to 0; x and y
\* are non-negative here, and so is carry, so subtract returns.
divide_loop(x, y, i, carry, result) ==
    IF i < 0 THEN <<result, carry>>
    ELSE LET pushed == [carry EXCEPT !.digits = <<get_digit(x, i)>> \o carry.digits]
             new_digit == small_divide(pushed, y)
             emitted == IF result.digits # <<>> \/ new_digit # Zero32
                        THEN [result EXCEPT !.digits = <<new_digit>> \o result.digits]
                        ELSE result
         IN  divide_loop(x, y, i - 1,
                         subtract(pushed, multiply_integer_by_digit(y, new_digit)).value,
                         emitted)

\* std::pair<integer, integer> divide(integer x, integer y): thrown is TRUE when
\* the call ends in std::logic_error("Division by 0 impermissible.") and
\* returns no pair.
divide(x, y) ==
    IF is_equal_to(y, zero)
    THEN [thrown |-> TRUE, quotient |-> zero, remainder |-> zero]
    ELSE IF is_less_than(x, y)
    THEN [thrown |-> FALSE, quotient |-> zero, remainder |-> x]
    ELSE LET is_negative == (x.is_negative # y.is_negative)
             pair == divide_loop(absolute_value(x), absolute_value(y),
                                 Len(x.digits) - 1, zero, zero)
         IN  [thrown |-> FALSE,
              quotient |-> [pair[1] EXCEPT !.is_negative = is_negative],
              remainder |-> [pair[2] EXCEPT !.is_negative = is_negative]]

(***************************************************************************)
(* The hex text codec.  A string is a sequence of one-character strings.   *)
(***************************************************************************)
DecimalChars == <<"0", "1", "2", "3", "4", "5", "6", "7", "8", "9">>
LowerChars == <<"a", "b", "c", "d", "e", "f", "g", "h", "i", "j", "k", "l", "m",
                "n", "o", "p", "q", "r", "s", "t", "u", "v", "w", "x", "y", "z">>
UpperChars == <<"A", "B", "C", "D", "E", "F", "G", "H", "I", "J", "K", "L", "M",
                "N", "O", "P", "Q", "R", "S", "T", "U", "V", "W", "X", "Y", "Z">>

InTable(c, table) == \E k \in 1 .. Len(table) : table[k] = c
IndexOf(c, table) == CHOOSE k \in 1 .. Len(table) : table[k] = c

\* std::tolower
tolower(d) == IF InTable(d, UpperChars) THEN LowerChars[IndexOf(d, UpperChars)] ELSE d

\* (The source asserts that d is a digit or a letter.)
get_digit_character_value(d) ==
    LET c == tolower(d)
    IN  IF InTable(c, DecimalChars) THEN IndexOf(c, DecimalChars) - 1
        ELSE 10 + IndexOf(c, LowerChars) - 1

get_digit_character(value, uppercase) ==
    IF value < 10 THEN DecimalChars[value + 1]
    ELSE IF uppercase THEN UpperChars[value - 10 + 1]
    ELSE LowerChars[value - 10 + 1]

\* bits_per_hex_digit and characters_per_digit of the two codec functions
bits_per_hex_digit == 4
characters_per_digit == 32 \div bits_per_hex_digit

RECURSIVE digits_from_hex_loop(_, _, _, _, _)
\* the loop of digits_from_hex_string (i runs from size - 1 down to 0) and
\* the final partial digit
digits_from_hex_loop(str, i, counter, current_digit, result) ==
    IF i < 0
    THEN IF current_digit # Zero32 THEN Append(result, current_digit) ELSE result
    ELSE LET current_character == get_digit_character_value(str[i + 1])
             packed == DigitOr(current_digit,
                               ShiftLeft32(current_character, bits_per_hex_digit * counter))
             next == (counter + 1) % characters_per_digit
         IN  IF next = 0
             THEN digits_from_hex_loop(str, i - 1, next, Zero32, Append(result, packed))
             ELSE digits_from_hex_loop(str, i - 1, next, packed, result)

digits_from_hex_string(str) == digits_from_hex_loop(str, Len(str) - 1, 0, Zero32, <<>>)

\* digits_from_string(str, is_hex) with is_hex = true (asserted by the source)
digits_from_string(str) == digits_from_hex_string(str)

\* integer create(std::string_view str, const bool is_hex = true)
create_from_string(str) ==
    IF str # <<>> /\ (str[1] = "-" \/ str[1] = "+")
    THEN create(digits_from_string(SubSeq(str, 2, Len(str))), str[1] = "-")
    ELSE create(digits_from_string(str), FALSE)

RECURSIVE hex_bit_loop(_, _, _, _)
\* the inner loop of hex_string_from_integer, from bit down to the bit that
\* brings counter back to 0, or to the end of the digit: <<current_bits,
\* counter, the next bit>> after it
hex_bit_loop(current_digit, bit, counter, current_bits) ==
    IF bit < 0 THEN <<current_bits, counter, bit>>
    ELSE LET is_set == DigitBit(current_digit, bit)
             bits == BitOr16(current_bits,
                             is_set * 2^(bits_per_hex_digit - 1 - (counter % bits_per_hex_digit)),
                             bits_per_hex_digit)
             next == (counter + 1) % bits_per_hex_digit
         IN  IF next = 0 THEN <<bits, next, bit - 1>>
             ELSE hex_bit_loop(current_digit, bit - 1, next, bits)

RECURSIVE hex_string_loop(_, _, _, _, _, _, _)
\* the two nested loops of hex_string_from_integer: i runs over the digits
\* from size - 1 down to 0 and bit from 31 down to 0 within each; the value is
\* what the loops write to ss from (i, bit) on
hex_string_loop(digits, uppercase, i, bit, counter, current_bits, has_character) ==
    IF i < 0 THEN <<>>
    ELSE IF bit < 0
    THEN hex_string_loop(digits, uppercase, i - 1, 31, counter, current_bits, has_character)
    ELSE LET after == hex_bit_loop(digits[i + 1], bit, counter, current_bits)
             wrapped == after[2] = 0
         IN  IF wrapped /\ (has_character \/ after[1] # 0)
             THEN <<get_digit_character(after[1], uppercase)>>
                  \o hex_string_loop(digits, uppercase, i, after[3], 0, 0, TRUE)
             ELSE hex_string_loop(digits, uppercase, i, after[3], after[2], after[1],
                                  has_character)

\* hex_string_from_integer without the sign character
hex_string_unsigned(x, uppercase) ==
    hex_string_loop(x.digits, uppercase, Len(x.digits) - 1, 31, 0, 0, FALSE)

hex_string_from_integer(x, uppercase) ==
    (IF x.is_negative THEN <<"-">> ELSE <<>>)
        \o hex_string_loop(x.digits, uppercase, Len(x.digits) - 1, 31, 0, 0, FALSE)

\* string_from_integer / to_string with is_hex = true (asserted by the source)
string_from_integer(x, uppercase) == hex_string_from_integer(x, uppercase)
to_string(x, uppercase) == string_from_integer(x, uppercase)

(***************************************************************************)
(* The state machine: a caller holds two integers x and y and applies one  *)
(* public operation to them; the state records what the call came to.      *)
(***************************************************************************)
\* The longest digit sequence of an operand.
MaxLen == 2
\* The largest shift amount.
MaxShift == 3

\* The digit values the operands are built from: 0, 1, 2^32 - 1 and a digit
\* with its top bit set and zero nibbles inside (0x80A0000B).
SampleDigits == {Zero32, One32, max_digit, D(32928, 11)}

RECURSIVE SeqsUpTo(_, _)
\* every sequence over S of length at most n
SeqsUpTo(S, n) ==
    IF n = 0 THEN {<<>>}
    ELSE LET shorter == SeqsUpTo(S, n - 1)
         IN  shorter \cup {Append(s, d) : s \in {t \in shorter : Len(t) = n - 1}, d \in S}

\* no zero element at the high-order end
NoLeadingZero(digits) == digits = <<>> \/ digits[Len(digits)] # Zero32

\* Canonical form (spec section 3): no zero digit at the high-order end, and
\* the empty sequence is never negative.
Canonical(v) == NoLeadingZero(v.digits) /\ (v.digits = <<>> => ~v.is_negative)

\* The operands: every canonical integer over SampleDigits of at most MaxLen
\* digits, and the negative zero that create(digits, true) and negate(zero) give.
Operands ==
    {create(ds, neg) : ds \in {s \in SeqsUpTo(SampleDigits, MaxLen) : NoLeadingZero(s)},
                       neg \in BOOLEAN}

VARIABLES
    x,          \* the first operand
    y,          \* the second operand
    op,         \* the operation applied: "none" before any
    amount,     \* the amount of a shift
    uppercase,  \* the uppercase argument of to_string
    outcome,    \* "none", "returned", "DivisionByZero" or "StackOverflow"
    result,     \* the integer returned (the quotient, for divide)
    remainder,  \* the remainder returned by divide
    verdict,    \* the boolean returned by a comparison
    text        \* the string returned by to_string

vars == <<x, y, op, amount, uppercase, outcome, result, remainder, verdict, text>>

Init ==
    /\ x \in Operands
    /\ y \in Operands
    /\ op = "none"
    /\ amount = 0
    /\ uppercase = TRUE
    /\ outcome = "none"
    /\ result = zero
    /\ remainder = zero
    /\ verdict = FALSE
    /\ text = <<>>

\* A call that returns the integer v.
ReturnInteger(name, v) ==
    /\ op = "none"
    /\ op' = name
    /\ outcome' = "returned"
    /\ result' = v
    /\ UNCHANGED <<x, y, amount, uppercase, remainder, verdict, text>>

\* A call of add or subtract: it returns call.value, or never returns.
ReturnCall(name, call) ==
    /\ op = "none"
    /\ op' = name
    /\ outcome' = IF call.returned THEN "returned" ELSE "StackOverflow"
    /\ result' = call.value
    /\ UNCHANGED <<x, y, amount, uppercase, remainder, verdict, text>>

\* A call that returns the boolean b.
ReturnBoolean(name, b) ==
    /\ op = "none"
    /\ op' = name
    /\ outcome' = "returned"
    /\ verdict' = b
    /\ UNCHANGED <<x, y, amount, uppercase, result, remainder, text>>

Negate == ReturnInteger("negate", negate(x))

AbsoluteValue == ReturnInteger("absolute_value", absolute_value(x))

Add == ReturnCall("add", add(x, y))

Subtract == ReturnCall("subtract", subtract(x, y))

Multiply == ReturnInteger("multiply", multiply(x, y))

Divide ==
    LET call == divide(x, y)
    IN  /\ op = "none"
        /\ op' = "divide"
        /\ outcome' = IF call.thrown THEN "DivisionByZero" ELSE "returned"
        /\ result' = call.quotient
        /\ remainder' = call.remainder
        /\ UNCHANGED <<x, y, amount, uppercase, verdict, text>>

IsLessThan == ReturnBoolean("is_less_than", is_less_than(x, y))

IsEqualTo == ReturnBoolean("is_equal_to", is_equal_to(x, y))

ShiftLeft ==
    \E k \in 0 .. MaxShift :
        /\ amount' = k
        /\ op = "none"
        /\ op' = "shift_left"
        /\ outcome' = "returned"
        /\ result' = shift_left(x, k)
        /\ UNCHANGED <<x, y, uppercase, remainder, verdict, text>>

ShiftRight ==
    \E k \in 0 .. MaxShift :
        /\ amount' = k
        /\ op = "none"
        /\ op' = "shift_right"
        /\ outcome' = "returned"
        /\ result' = shift_right(x, k)
        /\ UNCHANGED <<x, y, uppercase, remainder, verdict, text>>

\* to_string(x, true, u)
ToHexString ==
    \E u \in BOOLEAN :
        /\ op = "none"
        /\ op' = "to_string"
        /\ uppercase' = u
        /\ outcome' = "returned"
        /\ text' = to_string(x, u)
        /\ UNCHANGED <<x, y, amount, result, remainder, verdict>>

\* create(str) applied to the string to_string returned
Create ==
    /\ op = "to_string"
    /\ op' = "create"
    /\ outcome' = "returned"
    /\ result' = create_from_string(text)
    /\ UNCHANGED <<x, y, amount, uppercase, remainder, verdict, text>>

Next ==
    \/ Negate
    \/ AbsoluteValue
    \/ Add
    \/ Subtract
    \/ Multiply
    \/ Divide
    \/ IsLessThan
    \/ IsEqualTo
    \/ ShiftLeft
    \/ ShiftRight
    \/ ToHexString
    \/ Create

Spec == Init /\ [][Next]_vars

\* The divisors of SpecDivide: both zeros, and one- and two-digit divisors of
\* either sign.
Divisors ==
    {zero, negate(zero),
     create(<<One32>>, FALSE), create(<<One32>>, TRUE),
     create(<<D(0, 2)>>, FALSE), create(<<max_digit>>, TRUE),
     create(<<Zero32, One32>>, FALSE), create(<<One32, max_digit>>, TRUE)}

InitDivide ==
    /\ x \in Operands
    /\ y \in Divisors
    /\ op = "none"
    /\ amount = 0
    /\ uppercase = TRUE
    /\ outcome = "none"
    /\ result = zero
    /\ remainder = zero
    /\ verdict = FALSE
    /\ text = <<>>

\* divide alone, over every operand x and the divisors above
SpecDivide == InitDivide /\ [][Divide]_vars

\* The digit values of the codec's operands: SampleDigits, and digits with a
\* single low or high nibble (0x0000000A, 0xF0000000) and 0x00010000.
CodecDigits == SampleDigits \cup {D(0, 10), D(61440, 0), D(1, 0)}

CodecOperands ==
    {create(ds, neg) : ds \in {s \in SeqsUpTo(CodecDigits, MaxLen) : NoLeadingZero(s)},
                       neg \in BOOLEAN}

InitCodec ==
    /\ x \in CodecOperands
    /\ y = zero
    /\ op = "none"
    /\ amount = 0
    /\ uppercase = TRUE
    /\ outcome = "none"
    /\ result = zero
    /\ remainder = zero
    /\ verdict = FALSE
    /\ text = <<>>

NextCodec ==
    \/ ToHexString
    \/ Create

\* to_string, then create applied to its output
SpecCodec == InitCodec /\ [][NextCodec]_vars

\* The longest digit sequence of an operand of SpecSubtract: a borrow that
\* enters a zero digit of x below a nonzero one needs three digits.
KernelLen == 3

\* The operands of SpecSubtract: every canonical non-negative integer over
\* SampleDigits of at most KernelLen digits.
KernelOperands ==
    {create(ds, FALSE) : ds \in {s \in SeqsUpTo(SampleDigits, KernelLen) : NoLeadingZero(s)}}

InitSubtract ==
    /\ x \in KernelOperands
    /\ y \in KernelOperands
    /\ op = "none"
    /\ amount = 0
    /\ uppercase = TRUE
    /\ outcome = "none"
    /\ result = zero
    /\ remainder = zero
    /\ verdict = FALSE
    /\ text = <<>>

\* subtract alone, over non-negative operands of up to three digits
SpecSubtract == InitSubtract /\ [][Subtract]_vars

(***************************************************************************)
(* The logical value of an integer (spec section 3), as a sign and a       *)
(* little-endian base-256 numeral without high-order zeros, and exact      *)
(* arithmetic on such values.                                              *)
(***************************************************************************)
RECURSIVE NatNorm(_)
NatNorm(a) == IF a # <<>> /\ a[Len(a)] = 0 THEN NatNorm(SubSeq(a, 1, Len(a) - 1)) ELSE a

NatAt(a, i) == IF i <= Len(a) THEN a[i] ELSE 0

RECURSIVE NatAddFrom(_, _, _, _)
NatAddFrom(a, b, i, carry) ==
    IF i > Max(Len(a), Len(b)) THEN (IF carry = 0 THEN <<>> ELSE <<carry>>)
    ELSE LET s == NatAt(a, i) + NatAt(b, i) + carry
         IN  <<s % 256>> \o NatAddFrom(a, b, i + 1, s \div 256)

NatAdd(a, b) == NatNorm(NatAddFrom(a, b, 1, 0))

NatLess(a, b) ==
    IF Len(a) # Len(b) THEN Len(a) < Len(b)
    ELSE \E i \in 1 .. Len(a) : a[i] < b[i] /\ \A j \in (i + 1) .. Len(a) : a[j] = b[j]

RECURSIVE NatSubFrom(_, _, _, _)
\* a - b, for a >= b
NatSubFrom(a, b, i, borrow) ==
    IF i > Len(a) THEN <<>>
    ELSE LET s == NatAt(a, i) - NatAt(b, i) - borrow
         IN  <<s % 256>> \o NatSubFrom(a, b, i + 1, IF s < 0 THEN 1 ELSE 0)

NatSub(a, b) == NatNorm(NatSubFrom(a, b, 1, 0))

RECURSIVE NatTimesByte(_, _, _, _)
NatTimesByte(a, d, i, carry) ==
    IF i > Len(a) THEN (IF carry = 0 THEN <<>> ELSE <<carry>>)
    ELSE LET s == a[i] * d + carry
         IN  <<s % 256>> \o NatTimesByte(a, d, i + 1, s \div 256)

RECURSIVE NatMul(_, _)
NatMul(a, b) ==
    IF b = <<>> THEN <<>>
    ELSE NatAdd(NatNorm(NatTimesByte(a, b[1], 1, 0)), NatNorm(<<0>> \o NatMul(a, Tail(b))))

\* A signed value; zero has no sign.
Z(neg, mag) == [neg |-> neg /\ mag # <<>>, mag |-> mag]

ZAdd(u, v) ==
    IF u.neg = v.neg THEN Z(u.neg, NatAdd(u.mag, v.mag))
    ELSE IF NatLess(u.mag, v.mag) THEN Z(v.neg, NatSub(v.mag, u.mag))
    ELSE Z(u.neg, NatSub(u.mag, v.mag))

ZMul(u, v) == Z(u.neg # v.neg, NatMul(u.mag, v.mag))

ZLess(u, v) ==
    IF u.neg # v.neg THEN u.neg
    ELSE IF u.neg THEN NatLess(v.mag, u.mag)
    ELSE NatLess(u.mag, v.mag)

RECURSIVE BytesOf(_)
\* the digits d0, d1, ... as the base-256 numeral of the sum of d_i * 2^(32 i)
BytesOf(digits) ==
    IF digits = <<>> THEN <<>>
    ELSE LET d == digits[1]
         IN  <<d[2] % 256, d[2] \div 256, d[1] % 256, d[1] \div 256>> \o BytesOf(Tail(digits))

Magnitude(v) == NatNorm(BytesOf(v.digits))

Value(v) == Z(v.is_negative, Magnitude(v))

CanonicalOperands == Canonical(x) /\ Canonical(y)

(***************************************************************************)
(* The claims                                                              *)
(***************************************************************************)

\* C1: division law.  For canonical x and y, y not zero, the pair (q, r) that
\* divide(x, y) returns satisfies value(x) = value(q) * value(y) + value(r)
\* and |value(r)| < |value(y)|.
C1_DivisionLaw ==
    (op = "divide" /\ outcome = "returned" /\ CanonicalOperands)
        => /\ Value(x) = ZAdd(ZMul(Value(result), Value(y)), Value(remainder))
           /\ NatLess(Magnitude(remainder), Magnitude(y))

\* C2: for canonical x and y, is_less_than(x, y) is true exactly when
\* value(x) < value(y).
C2_LessThanIsSignedOrder ==
    (op = "is_less_than" /\ CanonicalOperands)
        => (verdict <=> ZLess(Value(x), Value(y)))

\* C3: for canonical x and y, add(x, y) returns an integer whose value is
\* value(x) + value(y).
C3_AddValue ==
    (op = "add" /\ outcome = "returned" /\ CanonicalOperands)
        => Value(result) = ZAdd(Value(x), Value(y))

\* C4: for canonical x and y, multiply(x, y) returns an integer whose magnitude
\* is |value(x)| * |value(y)| and whose sign flag is x.negative XOR y.negative.
C4_MultiplyValue ==
    (op = "multiply" /\ CanonicalOperands)
        => /\ Magnitude(result) = NatMul(Magnitude(x), Magnitude(y))
           /\ result.is_negative = (x.is_negative # y.is_negative)

\* C5: subtraction/addition duality.  For canonical x and y of any signs, what
\* subtract(x, y) returns is equal (by is_equal_to) to add(x, negate(y)).
C5_SubtractAddDuality ==
    (op = "subtract" /\ outcome = "returned" /\ CanonicalOperands)
        => /\ add(x, negate(y)).returned
           /\ is_equal_to(result, add(x, negate(y)).value)

\* C6: canonicalization.  For canonical inputs, every integer a public
\* operation returns (create from text, negate, absolute_value, add, subtract,
\* multiply, divide's quotient and remainder, shift_left, shift_right) has no
\* zero digit at its high-order end and is not negative when it has no digits.
C6_Canonicalization ==
    (/\ op \in {"create", "negate", "absolute_value", "add", "subtract", "multiply",
                "divide", "shift_left", "shift_right"}
     /\ outcome = "returned"
     /\ CanonicalOperands)
        => Canonical(result) /\ Canonical(remainder)

\* C7: divide(x, y) ends in the DivisionByZero error, returning no pair, when
\* y has no digits (whatever its sign flag), and returns a pair, raising
\* nothing, when y has a digit.
C7_DivisionByZero ==
    op = "divide"
        => IF y.digits = <<>>
           THEN outcome = "DivisionByZero" /\ result = zero /\ remainder = zero
           ELSE outcome = "returned"

\* C7 witness: a division of a nonzero x by the zero with the sign flag set has
\* ended in DivisionByZero.
C7_Witness ==
    /\ op = "divide"
    /\ x.digits # <<>>
    /\ y = negate(zero)
    /\ outcome = "DivisionByZero"

\* C8: text round trip.  For every canonical x other than zero, create applied
\* to to_string(x, hex, uppercase = true) gives x: the same sign flag and the
\* same digits.
C8_TextRoundTrip ==
    (op = "create" /\ uppercase /\ Canonical(x) /\ x.digits # <<>>)
        => result = x

\* C8 witness: a negative two-digit x with a zero low digit, and a high digit
\* with zero nibbles inside, has been printed and parsed back to itself.
C8_Witness ==
    /\ op = "create"
    /\ uppercase
    /\ x = create(<<Zero32, D(32928, 11)>>, TRUE)
    /\ text = <<"-", "8", "0", "A", "0", "0", "0", "0", "B",
                "0", "0", "0", "0", "0", "0", "0", "0">>
    /\ result = x

\* C9: for canonical x and k >= len(x.digits), shift_right(x, k) returns an
\* integer with no digits and negative = false, also when x is negative.
C9_ShiftRightToZero ==
    (op = "shift_right" /\ Canonical(x) /\ amount >= Len(x.digits))
        => result.digits = <<>> /\ ~result.is_negative

\* C10: for canonical x and y, the sign dispatch of add(x, y) and of
\* subtract(x, y) reaches the unsigned kernel after finitely many recursive
\* calls, and the call returns a result.
C10_SignDispatchReturns ==
    (op \in {"add", "subtract"} /\ CanonicalOperands)
        => outcome = "returned"

\* C11: the unsigned kernel of subtract.  For canonical non-negative x and y
\* with value(x) >= value(y), subtract(x, y) returns a canonical non-negative
\* integer whose value is value(x) - value(y): a borrow that enters a position
\* where the digit of x is 0 is carried on to the next position.
C11_SubtractKernel ==
    (/\ op = "subtract"
     /\ CanonicalOperands
     /\ ~x.is_negative /\ ~y.is_negative
     /\ ~NatLess(Magnitude(x), Magnitude(y)))
        => /\ outcome = "returned"
           /\ Canonical(result)
           /\ ~result.is_negative
           /\ Magnitude(result) = NatSub(Magnitude(x), Magnitude(y))

====
